---- MODULE Spec2Model ----
(***************************************************************************)
(* Rematierras, backend/remates_scraper: the crawl of main() over the two  *)
(* listing endpoints of the Boletin Concursal, and the BoletinClient it    *)
(* drives (bootstrap, iter_pages, download_pdf).                           *)
(*                                                                         *)
(* The remote server is the environment.  Each HTTP response is drawn when *)
(* the request is issued.  A listing page is opaque to the program until   *)
(* its loop reads an entry, so the model keeps len(entries) and draws the  *)
(* content of entry i when the loop reaches it.                            *)
(*                                                                         *)
(* The listing responses are taken to have the shape the endpoint          *)
(* documents: a JSON object whose data entries are objects with string     *)
(* fields, any of which may be absent or malformed.                        *)
(*                                                                         *)
(* Optional values are sequences: <<>> is None, <<v>> is the value v.      *)
(***************************************************************************)
EXTENDS Integers, Sequences, FiniteSets

\* ------------------------------------------------------------------ bounds
\* Non-empty pages a listing endpoint serves before its empty page.
MaxPages == 2
\* Entries on one listing page.
MaxEntries == 2
\* Validation codes are 1..MaxCode.
MaxCode == 2
\* The --limit tried besides none.
MaxLimit == 1
\* Characters of a text handed to a function of parser.py.
MaxText == 4

\* --------------------------------------------------------------- constants
\* `not codigo`: a missing or empty codigoValidacion.
EmptyCode == 0
\* --page-size default, and PageRequest's own defaults.
DefaultPageSize == 100
DefaultStart == 0
DefaultDraw == 1

ENDPOINTS ==
    << [slug |-> "muebles", endpoint |-> "/boletin/getRMP/", tipo_bien |-> "mueble"],
       [slug |-> "inmuebles", endpoint |-> "/boletin/getRIP/", tipo_bien |-> "inmueble"] >>

Codes == 1..MaxCode
\* Publication days of one month, around the window bounds tried below.
Days == {1, 2, 3}
\* fchPublicacion as received: <<>> is a missing key, <<0>> a string that is
\* not a date, <<d>> the string "2025-10-d".
RawDates == {<<>>, <<0>>} \cup {<<d>> : d \in Days}
\* The values the regular expressions of bootstrap can capture.
MetaToken == {<<>>, <<"T1">>}
MetaHeader == {<<>>, <<"X-CSRF">>}

VARIABLES
    args,             \* effective_start, end_date, limit, page_size (main's locals)
    csrf_token,       \* BoletinClient._csrf_token
    csrf_header_name, \* BoletinClient._csrf_header_name
    pc,               \* where main() is
    ep,               \* index of `config` in ENDPOINTS
    page_request,     \* the PageRequest handed to iter_pages
    start,            \* iter_pages' local offset
    draw,             \* iter_pages' local draw counter
    n_entries,        \* len(entries) of the page being processed
    i,                \* position of the entry loop in the page (1-based)
    too_old_counter,
    records,
    seen_codigos,
    written,          \* write_dataset has been called
    \* ---- what the remote side and an observer have seen
    html,             \* the metas of the landing page last received
    last,             \* the latest event
    entry,            \* what the latest entry step used of its entry: [codigo, read, raw]
    payload,          \* the form of the latest listing POST: [ep, start, draw, length]
    posts_list,       \* listing POSTs issued, per endpoint
    pdf_calls,        \* codes download_pdf was called for
    all_old,          \* every entry read so far on this page has a date before effective_start
    all_old_unrecorded, \* ... and, besides, a code that is in no record
    first_seen,       \* code -> endpoint index of its first occurrence (0: none)
    dup,              \* codes that occurred more than once
    first_ok,         \* code -> endpoint index of its first assembled record (0: none)
    call              \* a call of a function of parser.py or of the record assembly

vars == << args, csrf_token, csrf_header_name, pc, ep, page_request, start, draw,
           n_entries, i, too_old_counter, records, seen_codigos, written,
           html, last, entry, payload, posts_list, pdf_calls,
           all_old, all_old_unrecorded, first_seen, dup, first_ok, call >>

\* -------------------------------------------------------------- arguments
Max(a, b) == IF a >= b THEN a ELSE b

\* main.py 435-437
EffectiveStart(start_date, cutoff_date) ==
    IF start_date # <<>> /\ cutoff_date # <<>>
    THEN << Max(start_date[1], cutoff_date[1]) >>
    ELSE IF start_date # <<>> THEN start_date ELSE cutoff_date

\* --start-date (or the first day of --month) and the --lookback-days cutoff
StartCutoff == { << <<>>, <<>> >>, << <<2>>, <<>> >>, << <<1>>, <<2>> >> }
EndDates == {<<>>, <<2>>}
\* --limit: 0 stands for None and 0, which the tests of main treat alike.
Limits == {0, MaxLimit}
PageSizes == {DefaultPageSize}

\* ------------------------------------------------------------ BoletinClient
\* Mutant: the properties return the field without testing it.
CsrfHeadersRaises_Never(token, header) == FALSE

\* client.py 59-77: the properties raise unless the field is set.
CsrfHeadersRaises(token, header) == token = <<>> \/ header = <<>>

\* Mutant: the token is stored as soon as it is found, before the header is tested.
BootstrapResult_TokenFirst(status_ok, tok, hdr, token, header) ==
    IF ~status_ok THEN [raised |-> "http", token |-> token, header |-> header]
    ELSE IF tok = <<>> THEN [raised |-> "nomatch", token |-> token, header |-> header]
    ELSE IF hdr = <<>> THEN [raised |-> "nomatch", token |-> tok, header |-> header]
    ELSE [raised |-> "no", token |-> tok, header |-> hdr]

\* client.py 44-57: the fields after bootstrap() and whether it raised.
\* status_ok: raise_for_status passed; tok, hdr: what the two searches captured.
BootstrapResult(status_ok, tok, hdr, token, header) ==
    IF ~status_ok THEN [raised |-> "http", token |-> token, header |-> header]
    ELSE IF tok = <<>> \/ hdr = <<>>
         THEN [raised |-> "nomatch", token |-> token, header |-> header]
         ELSE [raised |-> "no", token |-> tok, header |-> hdr]

\* Mutant: the empty page is yielded like any other.
IterOutcome_NoBreak(status_ok, n) == IF ~status_ok THEN "raise" ELSE "yield"

\* client.py 123-130: what one turn of the while loop does with a response.
\* n is len(data.get("data", [])).
IterOutcome(status_ok, n) ==
    IF ~status_ok THEN "raise"
    ELSE IF n = 0 THEN "stop"
    ELSE "yield"

\* Mutant: the offset advances by one entry, not by one page.
AdvanceStart_ByOne(s, length) == s + 1

\* client.py 131-132
AdvanceStart(s, length) == s + length
AdvanceDraw(d) == d + 1

\* Mutant: the iterator keeps its position in the request it was given.
RequestAfterYield_Advance(request) ==
    [request EXCEPT !.start = @ + request.length, !.draw = @ + 1]

\* client.py 131-132: only the locals advance; the PageRequest is not assigned.
RequestAfterYield(request) == request

\* ------------------------------------------------------------------- main
\* Mutant: the seen set is not consulted.
SkipCodigo_NoSeen(codigo, seen) == codigo = EmptyCode

\* main.py 458
SkipCodigo(codigo, seen) == codigo = EmptyCode \/ codigo \in seen

\* Mutant: a date that cannot be read defaults to a day inside the window.
ParseFecha_Default(raw) ==
    IF Len(raw) = 1 /\ raw[1] >= 1 /\ raw[1] <= 31 THEN << raw[1] >> ELSE << 2 >>

\* main.py 461-465: strptime(entry["fchPublicacion"], "%Y-%m-%d"); <<>> when it raises.
ParseFecha(raw) ==
    IF Len(raw) = 1 /\ raw[1] >= 1 /\ raw[1] <= 31 THEN << raw[1] >> ELSE <<>>

\* Mutant: the upper bound of the window is not tested.
TooNew_Never(end_date, fecha) == FALSE

\* main.py 467
TooOld(effective_start, fecha) == effective_start # <<>> /\ fecha < effective_start[1]

\* main.py 471
TooNew(end_date, fecha) == end_date # <<>> /\ fecha > end_date[1]

\* Mutant: the crawl stops one record late.
LimitReached_Late(limit, recs) == limit # 0 /\ Len(recs) > limit

\* main.py 506, 509, 514
LimitReached(limit, recs) == limit # 0 /\ Len(recs) >= limit

\* Mutant: one too-old entry is enough to stop.
EarlyStop_Some(effective_start, counter, n) == effective_start # <<>> /\ counter >= 1

\* main.py 511
EarlyStop(effective_start, counter, n) == effective_start # <<>> /\ counter = n

\* main.py 481-502 (the fields the crawl decides)
MakeRecord(codigo, e, fecha) ==
    [codigo_validacion |-> codigo, tipo_bien |-> ENDPOINTS[e].tipo_bien,
     fecha_publicacion |-> fecha]

\* main.py 517: sort by (fecha_publicacion, codigo_validacion), reverse.
Before(a, b) ==
    \/ a.fecha_publicacion > b.fecha_publicacion
    \/ /\ a.fecha_publicacion = b.fecha_publicacion
       /\ a.codigo_validacion >= b.codigo_validacion

RECURSIVE Insert(_, _)
Insert(r, s) ==
    IF s = <<>> THEN << r >>
    ELSE IF Before(Head(s), r) THEN << Head(s) >> \o Insert(r, Tail(s))
    ELSE << r >> \o s

RECURSIVE SortRecords(_)
SortRecords(s) ==
    IF s = <<>> THEN <<>>
    ELSE Insert(s[Len(s)], SortRecords(SubSeq(s, 1, Len(s) - 1)))

\* main.py 448: PageRequest(endpoint=endpoint, length=args.page_size)
NewPageRequest(e, length) ==
    [endpoint |-> e, start |-> DefaultStart, length |-> length, draw |-> DefaultDraw]

\* What a step used of the entry it handled: the codigo it passed to
\* download_pdf (EmptyCode when it did not call it), whether it read the entry's
\* fchPublicacion, and the value it read (<<>> also when it did not read).
Used(codigo, read, raw) == [codigo |-> codigo, read |-> read, raw |-> raw]

NoEntry == Used(EmptyCode, FALSE, <<>>)

\* No function of parser.py under observation.
NoCall == [fn |-> "none", arg |-> <<>>, result |-> <<>>, done |-> TRUE]

InitArgs ==
    \E sc \in StartCutoff, ed \in EndDates, lim \in Limits, ps \in PageSizes :
       args = [effective_start |-> EffectiveStart(sc[1], sc[2]), end_date |-> ed,
               limit |-> lim, page_size |-> ps]

InitRest ==
    /\ csrf_token = <<>>
    /\ csrf_header_name = <<>>
    /\ ep = 1
    /\ page_request = NewPageRequest(1, args.page_size)
    /\ start = DefaultStart
    /\ draw = DefaultDraw
    /\ n_entries = 0
    /\ i = 1
    /\ too_old_counter = 0
    /\ records = <<>>
    /\ seen_codigos = {}
    /\ written = FALSE
    /\ html = [ok |-> FALSE, token |-> <<>>, header |-> <<>>]
    /\ last = "init"
    /\ entry = NoEntry
    /\ payload = [ep |-> 0, start |-> 0, draw |-> 0, length |-> 0]
    /\ posts_list = [e \in 1..Len(ENDPOINTS) |-> 0]
    /\ pdf_calls = {}
    /\ all_old = FALSE
    /\ all_old_unrecorded = FALSE
    /\ first_seen = [c \in Codes |-> 0]
    /\ dup = {}
    /\ first_ok = [c \in Codes |-> 0]

Init ==
    /\ InitArgs
    /\ pc = "bootstrap"
    /\ InitRest
    /\ call = NoCall

\* ------------------------------------------------------------ main: steps
\* Mutant: the failure of one download ends the crawl of the endpoint.
AfterPdfFailure_EndsEndpoint == "next_endpoint"

\* Mutant: the failure of one download is not caught.
AfterPdfFailure_Raise == "error"

\* main.py 477-479: the except clause logs and continues with the next entry.
AfterPdfFailure == "loop"

\* Mutant: a failed listing fetch is logged and the crawl goes on to the next endpoint.
AfterListingError_Skip == "next_endpoint"

\* main.py 450: nothing catches what iter_pages raises, so main() ends with it.
AfterListingError == "error"

\* main.py 440: nothing catches what bootstrap raises.
AfterBootstrapError == "error"

\* Mutant: the early stop ends the whole crawl.
AfterEarlyStop_Finish == "finish"

\* main.py 511-512: the break leaves the loop over the pages of this endpoint.
AfterEarlyStop == "next_endpoint"

\* main.py 439-443
Bootstrap ==
    /\ pc = "bootstrap"
    /\ \E ok \in BOOLEAN, tok \in MetaToken, hdr \in MetaHeader :
          LET r == BootstrapResult(ok, tok, hdr, csrf_token, csrf_header_name) IN
          /\ ok \/ (tok = <<>> /\ hdr = <<>>)
          /\ csrf_token' = r.token
          /\ csrf_header_name' = r.header
          /\ html' = [ok |-> ok, token |-> tok, header |-> hdr]
          /\ last' = (IF r.raised = "no" THEN "boot_ok"
                      ELSE IF r.raised = "http" THEN "boot_http" ELSE "boot_nomatch")
          /\ pc' = IF r.raised = "no" THEN "fetch" ELSE AfterBootstrapError
    /\ UNCHANGED << call, args, ep, page_request, start, draw, n_entries, i, too_old_counter,
                    records, seen_codigos, written, entry, payload, posts_list, pdf_calls,
                    all_old, all_old_unrecorded, first_seen, dup, first_ok >>

\* client.py 116-122: the POST of one turn of iter_pages, as the server sees it.
ListingPost ==
    /\ posts_list' = [posts_list EXCEPT ![page_request.endpoint] = @ + 1]
    /\ payload' = [ep |-> page_request.endpoint, start |-> start, draw |-> draw,
                   length |-> page_request.length]

\* client.py 87-130: one turn of iter_pages' loop, up to its raise, break or
\* yield; the parameters say where each outcome leaves the caller.
FetchThen(on_raise, on_stop, on_empty, on_page) ==
    /\ pc = "fetch"
    /\ IF CsrfHeadersRaises(csrf_token, csrf_header_name)
       THEN /\ pc' = on_raise
            /\ last' = "list_not_initialised"
            /\ UNCHANGED << n_entries, i, too_old_counter, entry, all_old,
                            all_old_unrecorded, posts_list, payload >>
       ELSE \E status_ok \in BOOLEAN, n \in 0..MaxEntries :
            LET out == IterOutcome(status_ok, n) IN
            /\ n > 0 => status_ok /\ posts_list[ep] < MaxPages
            /\ ListingPost
            \* the response as the server sent it
            /\ last' = (IF ~status_ok THEN "list_http"
                        ELSE IF n = 0 THEN "list_empty" ELSE "list_page")
            /\ entry' = NoEntry
            /\ pc' = IF out = "raise" THEN on_raise
                     ELSE IF out = "stop" THEN on_stop
                     ELSE IF n = 0 THEN on_empty ELSE on_page
            /\ n_entries' = IF out = "yield" THEN n ELSE n_entries
            /\ i' = IF out = "yield" THEN 1 ELSE i
            /\ too_old_counter' = IF out = "yield" THEN 0 ELSE too_old_counter
            /\ all_old' = (out = "yield" /\ n > 0 /\ args.effective_start # <<>>)
            /\ all_old_unrecorded' = all_old'
    /\ UNCHANGED << call, args, csrf_token, csrf_header_name, ep, page_request, start, draw,
                    records, seen_codigos, written, html, pdf_calls,
                    first_seen, dup, first_ok >>

\* client.py 87-130 under main.py 450-453: an error ends main(), the end of the
\* iterator ends the endpoint, and main tests the yielded page again itself.
Fetch == FetchThen(AfterListingError, "next_endpoint", "next_endpoint", "loop")

\* client.py 137-149: download_pdf raises before posting when the client is not
\* initialised, and on a non-success status.  In main, pdf_ok = FALSE also
\* stands for parse_remate_pdf raising.
DownloadPdf(pdf_ok) ==
    IF CsrfHeadersRaises(csrf_token, csrf_header_name) THEN "pdf_not_initialised"
    ELSE IF pdf_ok THEN "pdf_ok" ELSE "pdf_fail"

\* main.py 456-479: the path one entry takes through the loop body.
EntryBranch(codigo, raw, pdf_ok) ==
    LET fecha == ParseFecha(raw) IN
    IF SkipCodigo(codigo, seen_codigos) THEN "skip_codigo"
    ELSE IF fecha = <<>> THEN "skip_fecha"
    ELSE IF TooOld(args.effective_start, fecha[1]) THEN "too_old"
    ELSE IF TooNew(args.end_date, fecha[1]) THEN "too_new"
    \* the except clause catches whatever download_pdf or the parser raises
    ELSE IF DownloadPdf(pdf_ok) = "pdf_ok" THEN "record" ELSE DownloadPdf(pdf_ok)

\* Mutant: a code is marked as seen as soon as its PDF is requested.
MarksSeen_OnDownload(b) == b \in {"record", "pdf_fail"}

\* main.py 503-504: seen_codigos.add follows records.append, on that path only.
MarksSeen(b) == b = "record"

\* Mutant: the for statement gives up the page after any entry.
LoopExhausted_Early(idx, n) == TRUE

\* main.py 456: the for statement ends after the last entry of the page.
LoopExhausted(idx, n) == idx = n

\* main.py 456-507: the loop body for entry i of the page.  `occurrences` says
\* whether the observer also keeps first_seen and dup.
HandleEntryObserved(occurrences) ==
    /\ pc = "loop"
    /\ i <= n_entries
    /\ \E codigo \in {EmptyCode} \cup Codes, raw \in RawDates :
       \E pdf_ok \in IF EntryBranch(codigo, raw, TRUE) = "record" THEN BOOLEAN ELSE {TRUE} :
          LET b == EntryBranch(codigo, raw, pdf_ok)
              fecha == ParseFecha(raw)
              recs == IF b = "record"
                      THEN Append(records, MakeRecord(codigo, ep, fecha[1]))
                      ELSE records
              broke == b = "record" /\ LimitReached(args.limit, recs)
          IN
          /\ records' = recs
          /\ seen_codigos' = IF MarksSeen(b) THEN seen_codigos \cup {codigo}
                             ELSE seen_codigos
          /\ too_old_counter' = IF b = "too_old" THEN too_old_counter + 1
                                ELSE too_old_counter
          /\ i' = IF broke THEN i ELSE i + 1
          /\ pc' = IF b \in {"pdf_fail", "pdf_not_initialised"} /\ AfterPdfFailure # "loop"
                   THEN AfterPdfFailure
                   ELSE IF broke \/ LoopExhausted(i, n_entries) THEN "page_end" ELSE "loop"
          /\ pdf_calls' = IF b \in {"record", "pdf_fail"} THEN pdf_calls \cup {codigo}
                          ELSE pdf_calls
          /\ last' = b
          /\ entry' = Used(IF b \in {"record", "pdf_fail"} THEN codigo ELSE EmptyCode,
                            b # "skip_codigo",
                            IF b # "skip_codigo" THEN raw ELSE <<>>)
          /\ all_old' = (all_old /\ fecha # <<>> /\ TooOld(args.effective_start, fecha[1]))
          /\ all_old_unrecorded' =
                (all_old_unrecorded /\ all_old' /\ codigo # EmptyCode
                 /\ \A k \in 1..Len(records) : records[k].codigo_validacion # codigo)
          /\ first_seen' = IF occurrences /\ codigo # EmptyCode /\ first_seen[codigo] = 0
                           THEN [first_seen EXCEPT ![codigo] = ep] ELSE first_seen
          /\ dup' = IF occurrences /\ codigo # EmptyCode /\ first_seen[codigo] # 0
                    THEN dup \cup {codigo} ELSE dup
          /\ first_ok' = IF b = "record" /\ first_ok[codigo] = 0
                         THEN [first_ok EXCEPT ![codigo] = ep] ELSE first_ok
    /\ UNCHANGED << call, args, csrf_token, csrf_header_name, ep, page_request, start, draw,
                    n_entries, written, html, payload, posts_list >>

\* main.py 509-512, and client.py 131-132 when the for statement asks for the next page.
PageEnd ==
    /\ pc = "page_end"
    /\ IF LimitReached(args.limit, records)
       THEN /\ pc' = "next_endpoint"
            /\ last' = "limit_stop"
            /\ UNCHANGED << start, draw >>
       ELSE IF EarlyStop(args.effective_start, too_old_counter, n_entries)
       THEN /\ pc' = AfterEarlyStop
            /\ last' = "early_stop"
            /\ UNCHANGED << start, draw >>
       ELSE /\ pc' = "fetch"
            /\ last' = "next_page"
            /\ start' = AdvanceStart(start, page_request.length)
            /\ draw' = AdvanceDraw(draw)
    /\ page_request' = RequestAfterYield(page_request)
    /\ UNCHANGED << call, args, csrf_token, csrf_header_name, ep, n_entries, i,
                    too_old_counter, records, seen_codigos, written, html, entry, payload,
                    posts_list, pdf_calls, all_old, all_old_unrecorded, first_seen,
                    dup, first_ok >>

\* main.py 514-515, then 445-448 and client.py 84-85 for the next endpoint.
EndpointEnd ==
    /\ pc = "next_endpoint"
    /\ IF LimitReached(args.limit, records) \/ ep = Len(ENDPOINTS)
       THEN /\ pc' = "finish"
            /\ UNCHANGED << ep, page_request, start, draw >>
       ELSE /\ pc' = "fetch"
            /\ ep' = ep + 1
            /\ page_request' = NewPageRequest(ep + 1, args.page_size)
            /\ start' = page_request'.start
            /\ draw' = page_request'.draw
    /\ last' = "endpoint_end"
    /\ UNCHANGED << call, args, csrf_token, csrf_header_name, n_entries, i, too_old_counter,
                    records, seen_codigos, written, html, entry, payload, posts_list, pdf_calls,
                    all_old, all_old_unrecorded, first_seen, dup, first_ok >>

\* main.py 517-555
Finish ==
    /\ pc = "finish"
    /\ records' = SortRecords(records)
    /\ written' = TRUE
    /\ pc' = "done"
    /\ last' = "written"
    /\ UNCHANGED << call, args, csrf_token, csrf_header_name, ep, page_request, start, draw,
                    n_entries, i, too_old_counter, seen_codigos, html, entry, payload,
                    posts_list, pdf_calls, all_old, all_old_unrecorded, first_seen,
                    dup, first_ok >>

HandleEntry == HandleEntryObserved(FALSE)

HandleEntryOcc == HandleEntryObserved(TRUE)

Next ==
    \/ Bootstrap
    \/ Fetch
    \/ HandleEntry
    \/ PageEnd
    \/ EndpointEnd
    \/ Finish

Spec == Init /\ [][Next]_vars

\* main() is one thread that runs on as long as it has a step to take, and
\* every request returns.
FairSpec == Init /\ [][Next]_vars /\ WF_vars(Next)

\* The same crawl, with the occurrences of every code observed.
NextOcc ==
    \/ Bootstrap
    \/ Fetch
    \/ HandleEntryOcc
    \/ PageEnd
    \/ EndpointEnd
    \/ Finish

SpecOcc == Init /\ [][NextOcc]_vars

\* ------------------------------------------------- BoletinClient, any caller
\* The methods of one BoletinClient called in any order: pc is "idle" (no live
\* iterator), "raised" (the iterator ended by raising), "fetch" (an iterator
\* about to post) or "yielded" (an iterator suspended at its yield).
InitClient ==
    /\ \E ps \in PageSizes :
       args = [effective_start |-> <<>>, end_date |-> <<>>, limit |-> 0, page_size |-> ps]
    /\ pc = "idle"
    /\ InitRest
    /\ call = NoCall

\* client.py 44-57
ClientBootstrap ==
    /\ \E ok \in BOOLEAN, tok \in MetaToken, hdr \in MetaHeader :
          LET r == BootstrapResult(ok, tok, hdr, csrf_token, csrf_header_name) IN
          /\ ok \/ (tok = <<>> /\ hdr = <<>>)
          /\ csrf_token' = r.token
          /\ csrf_header_name' = r.header
          /\ html' = [ok |-> ok, token |-> tok, header |-> hdr]
          /\ last' = (IF r.raised = "no" THEN "boot_ok"
                      ELSE IF r.raised = "http" THEN "boot_http" ELSE "boot_nomatch")
    /\ UNCHANGED << call, args, pc, ep, page_request, start, draw, n_entries, i,
                    too_old_counter, records, seen_codigos, written, entry, payload, posts_list,
                    pdf_calls, all_old, all_old_unrecorded, first_seen, dup, first_ok >>

\* client.py 82-85: a call of iter_pages on a PageRequest built as main builds it.
ClientIterPages ==
    /\ \E e \in 1..Len(ENDPOINTS) :
          /\ page_request' = NewPageRequest(e, args.page_size)
          /\ ep' = e
    /\ start' = page_request'.start
    /\ draw' = page_request'.draw
    /\ pc' = "fetch"
    /\ last' = "iter_pages"
    /\ UNCHANGED << call, args, csrf_token, csrf_header_name, n_entries, i, too_old_counter,
                    records, seen_codigos, written, html, entry, payload, posts_list, pdf_calls,
                    all_old, all_old_unrecorded, first_seen, dup, first_ok >>

\* client.py 82-85: another call of iter_pages on the PageRequest at hand; the
\* iterator of the earlier call, wherever it stands, is abandoned.
ClientIterPagesAgain ==
    /\ last # "init"
    /\ start' = page_request.start
    /\ draw' = page_request.draw
    /\ pc' = "fetch"
    /\ last' = "iter_pages_again"
    /\ UNCHANGED << call, args, csrf_token, csrf_header_name, ep, page_request, n_entries, i,
                    too_old_counter, records, seen_codigos, written, html, entry, payload,
                    posts_list, pdf_calls, all_old, all_old_unrecorded, first_seen, dup,
                    first_ok >>

\* client.py 87-130: next() on the iterator; a raise or the break ends it.
ClientFetch ==
    /\ posts_list[ep] <= MaxPages
    /\ FetchThen("raised", "idle", "yielded", "yielded")

\* client.py 131-132: the caller asks for the page after the one yielded.
ClientResume ==
    /\ pc = "yielded"
    /\ start' = AdvanceStart(start, page_request.length)
    /\ draw' = AdvanceDraw(draw)
    /\ pc' = "fetch"
    /\ last' = "resume"
    /\ page_request' = RequestAfterYield(page_request)
    /\ UNCHANGED << call, args, csrf_token, csrf_header_name, ep, n_entries, i,
                    too_old_counter, records, seen_codigos, written, html, entry, payload,
                    posts_list, pdf_calls, all_old, all_old_unrecorded, first_seen, dup, first_ok >>

\* client.py 137-149
ClientDownloadPdf ==
    /\ \E codigo \in Codes, pdf_ok \in BOOLEAN :
          LET d == DownloadPdf(pdf_ok) IN
          /\ pdf_calls' = IF d = "pdf_not_initialised" THEN pdf_calls
                          ELSE pdf_calls \cup {codigo}
          /\ last' = d
          /\ entry' = Used(IF d = "pdf_not_initialised" THEN EmptyCode ELSE codigo,
                            FALSE, <<>>)
    /\ UNCHANGED << call, args, csrf_token, csrf_header_name, pc, ep, page_request, start, draw,
                    n_entries, i, too_old_counter, records, seen_codigos, written, html,
                    payload, posts_list, all_old, all_old_unrecorded, first_seen, dup, first_ok >>

ClientNext ==
    \/ ClientBootstrap
    \/ ClientIterPages
    \/ ClientIterPagesAgain
    \/ ClientFetch
    \/ ClientResume
    \/ ClientDownloadPdf

ClientSpec == InitClient /\ [][ClientNext]_vars

\* ---------------------------------------------------------------- parser.py
\* A text is a sequence of characters, a character a string.  The characters
\* that matter to the functions are named; a label of the notice stands as one
\* character, since the patterns match it as a whole.
LF == "\n"
CR == "\r"
TAB == "\t"
\* U+0007, an ASCII control character that is not white space.
BEL == "U+0007"
\* U+00E9, whose decomposition is e followed by U+0301.
EAcute == "U+00E9"
CombiningAcute == "U+0301"
\* U+20AC, which has no decomposition.
Euro == "U+20AC"

\* All texts of at most n characters of the alphabet.
Texts(alphabet, n) == UNION { [1..k -> alphabet] : k \in 0..n }

\* parser.py 34: unicodedata.normalize("NFKD", text)
Nfkd(c) == IF c = EAcute THEN << "e", CombiningAcute >> ELSE << c >>

RECURSIVE NormalizeNFKD(_)
NormalizeNFKD(text) ==
    IF text = <<>> THEN <<>> ELSE Nfkd(Head(text)) \o NormalizeNFKD(Tail(text))

\* parser.py 35: encode("ascii", "ignore") drops what is above U+007F, and only that.
IsAscii(c) == c \notin {EAcute, CombiningAcute, Euro}

EncodeAsciiIgnore(text) == SelectSeq(text, IsAscii)

\* parser.py 36
ReplaceCR(text) == [j \in 1..Len(text) |-> IF text[j] = CR THEN LF ELSE text[j]]

\* parser.py 37: re.sub(r"\n{2,}", "\n", ...)
RECURSIVE CollapseNewlines(_)
CollapseNewlines(text) ==
    IF Len(text) <= 1 THEN text
    ELSE IF text[1] = LF /\ text[2] = LF THEN CollapseNewlines(Tail(text))
    ELSE << text[1] >> \o CollapseNewlines(Tail(text))

\* The white space of str.strip() and of \s.
Whitespace == {" ", LF, CR, TAB}

RECURSIVE LStrip(_)
LStrip(text) ==
    IF text # <<>> /\ Head(text) \in Whitespace THEN LStrip(Tail(text)) ELSE text

RECURSIVE RStrip(_)
RStrip(text) ==
    IF text # <<>> /\ text[Len(text)] \in Whitespace
    THEN RStrip(SubSeq(text, 1, Len(text) - 1)) ELSE text

\* str.strip()
Strip(text) == RStrip(LStrip(text))

\* parser.py 33-38
ToAscii(text) ==
    Strip(CollapseNewlines(ReplaceCR(EncodeAsciiIgnore(NormalizeNFKD(text)))))

\* The number of consecutive characters of text, from position from on, that
\* are in set: what a greedy character class takes.
RECURSIVE RunLen(_, _, _)
RunLen(text, from, set) ==
    IF from <= Len(text) /\ text[from] \in set THEN 1 + RunLen(text, from + 1, set) ELSE 0

\* parser.py 47-51 at one occurrence of the label, for a pattern "<label>\s*(.+)":
\* \s* takes the longest run of white space that leaves (.+) a character that
\* is not a newline, and (.+) runs to the end of that line.  << >> is no match,
\* << g >> the stripped group.
SearchAt(text, p) ==
    LET ws == RunLen(text, p + 1, Whitespace)
        ks == {k \in 0..ws : p + k + 1 <= Len(text) /\ text[p + k + 1] # LF}
    IN  IF ks = {} THEN <<>>
        ELSE LET k == CHOOSE x \in ks : \A y \in ks : y <= x
                 from == p + k + 1
                 n == RunLen(text, from, {text[j] : j \in 1..Len(text)} \ {LF})
             IN  << Strip(SubSeq(text, from, from + n - 1)) >>

\* parser.py 47-51: re.search takes the leftmost occurrence that matches.
Search(label, text) ==
    LET ps == {p \in 1..Len(text) : text[p] = label /\ SearchAt(text, p) # <<>>}
    IN  IF ps = {} THEN <<>>
        ELSE SearchAt(text, CHOOSE p \in ps : \A q \in ps : p <= q)

\* ---- _parse_datetime.  A value is a sequence of tokens: a numeral or a
\* literal character.
Num(n) == [k |-> "num", n |-> n, c |-> ""]
Lit(c) == [k |-> "lit", n |-> 0, c |-> c]

\* parser.py 57: the formats, in the order they are tried.
DatetimeFormats ==
    << << "%d", "/", "%m", "/", "%Y", " ", "%H", ":", "%M" >>,
       << "%d", "-", "%m", "-", "%Y", " ", "%H", ":", "%M" >>,
       << "%d", "/", "%m", "/", "%Y" >> >>

\* What a directive of strptime accepts.
FieldRange(d) ==
    CASE d = "%d" -> 1..31
      [] d = "%m" -> 1..12
      [] d = "%Y" -> 1..9999
      [] d = "%H" -> 0..23
      [] d = "%M" -> 0..59

Directives == {"%d", "%m", "%Y", "%H", "%M"}

DaysInMonth(m, y) ==
    IF m = 2 THEN (IF y % 4 = 0 /\ (y % 100 # 0 \/ y % 400 = 0) THEN 29 ELSE 28)
    ELSE IF m \in {4, 6, 9, 11} THEN 30 ELSE 31

\* The numeral the value has where the format has directive d; dflt when the
\* format has no such directive.
FieldOf(fmt, value, d, dflt) ==
    IF \E j \in 1..Len(fmt) : fmt[j] = d
    THEN value[CHOOSE j \in 1..Len(fmt) : fmt[j] = d].n
    ELSE dflt

\* datetime.strptime(value, fmt): << >> when it raises ValueError.
Strptime(value, fmt) ==
    IF /\ Len(value) = Len(fmt)
       /\ \A j \in 1..Len(fmt) :
             IF fmt[j] \in Directives
             THEN value[j].k = "num" /\ value[j].n \in FieldRange(fmt[j])
             ELSE value[j].k = "lit" /\ value[j].c = fmt[j]
       /\ FieldOf(fmt, value, "%d", 1)
             <= DaysInMonth(FieldOf(fmt, value, "%m", 1), FieldOf(fmt, value, "%Y", 1))
    THEN << [day |-> FieldOf(fmt, value, "%d", 1), month |-> FieldOf(fmt, value, "%m", 1),
             year |-> FieldOf(fmt, value, "%Y", 1), hour |-> FieldOf(fmt, value, "%H", 0),
             minute |-> FieldOf(fmt, value, "%M", 0)] >>
    ELSE <<>>

\* parser.py 54-62.  value: << >> is None, << v >> the captured string v.
ParseDatetime(value) ==
    IF value = <<>> \/ value[1] = <<>> THEN <<>>
    ELSE LET ok == {f \in 1..Len(DatetimeFormats) :
                       Strptime(value[1], DatetimeFormats[f]) # <<>>}
         IN  IF ok = {} THEN <<>>
             ELSE Strptime(value[1], DatetimeFormats[CHOOSE f \in ok : \A g \in ok : f <= g])

\* ---- the minimum value
ValorLabel == "Valor Minimo (pesos):"
Digits == {"0", "1"}
IsDigit(c) == c \in Digits

\* parser.py 112: re.search(r"Valor Minimo \(pesos\):\s*([0-9\.\s]*)", text);
\* << >> is no match, << g >> the group of the leftmost match.
ValorMatch(text) ==
    LET ps == {p \in 1..Len(text) : text[p] = ValorLabel} IN
    IF ps = {} THEN <<>>
    ELSE LET p == CHOOSE x \in ps : \A y \in ps : x <= y
             ws == RunLen(text, p + 1, Whitespace)
             n == RunLen(text, p + 1 + ws, Digits \cup {"."} \cup Whitespace)
         IN  << SubSeq(text, p + 1 + ws, p + ws + n) >>

RECURSIVE ToInt(_)
ToInt(digits) ==
    IF digits = <<>> THEN 0
    ELSE 10 * ToInt(SubSeq(digits, 1, Len(digits) - 1))
         + (IF digits[Len(digits)] = "1" THEN 1 ELSE 0)

\* parser.py 65-74
ParseValorMinimo(value) ==
    IF value = <<>> \/ value[1] = <<>> THEN <<>>
    ELSE LET digits == SelectSeq(value[1], IsDigit) IN
         IF digits = <<>> THEN <<>> ELSE << ToInt(digits) >>

\* parser.py 112-113
ValorMinimo(text) == ParseValorMinimo(ValorMatch(text))

\* ---- the record assembly
\* Mutant: the value of the listing entry is preferred.
PyOr_ListingFirst(a, b) == IF b # <<>> /\ b[1] # <<>> THEN b ELSE a

\* Python's `a or b` on optional strings: None and "" are false.
PyOr(a, b) == IF a # <<>> /\ a[1] # <<>> THEN a ELSE b

\* parser.py 88, 91, 94: the two fields of the RemateDetail that the listing
\* entry can also supply.
ParseRemateDetail(pdf_text) ==
    LET text == ToAscii(pdf_text) IN
    [deudor |-> Search("Deudor:", text),
     tipo_procedimiento |-> Search("Tipo Procedimiento:", text)]

\* main.py 486, 489
AssembleRecord(detail, e) ==
    [deudor_nombre |-> PyOr(detail.deudor, e.deudorNombre),
     tipo_procedimiento |-> PyOr(detail.tipo_procedimiento, e.tipoProcedimiento)]

\* ---- the calls observed
AsciiAlphabet == {"a", " ", LF, CR, TAB, BEL, EAcute, Euro}
ValorAlphabet == {ValorLabel, "0", "1", ".", " ", LF, "x"}
NoticeAlphabet == {"Deudor:", "Tipo Procedimiento:", " ", LF, "x"}
\* entry.get(...): no key, the empty string, a name.
EntryStrings == {<<>>, << <<>> >>, << << "y" >> >>}

DatePart(d, m, s1, s2) == << Num(d), Lit(s1), Num(m), Lit(s2), Num(2025) >>

TimeParts ==
    { <<>>,
      << Lit(" "), Num(10), Lit(":"), Num(30) >>,
      << Lit(" "), Num(25), Lit(":"), Num(0) >>,
      << Lit(" "), Num(10), Lit(":"), Num(30), Lit(" hrs") >> }

\* What the pattern "Fecha del Remate:\s*(.+)" can hand to _parse_datetime.
DatetimeValues ==
    {<<>>, << <<>> >>}
    \cup { << DatePart(d, m, s1, s2) \o t >> :
              d \in {15, 31, 32}, m \in {2, 3}, s1 \in {"/", "-"}, s2 \in {"/", "-"},
              t \in TimeParts }

NewCall(fn, arg) == [fn |-> fn, arg |-> arg, result |-> <<>>, done |-> FALSE]

ParserCalls ==
    { NewCall("_to_ascii", t) : t \in Texts(AsciiAlphabet, MaxText) }
    \cup { NewCall("_parse_datetime", v) : v \in DatetimeValues }
    \cup { NewCall("valor_minimo", t) : t \in Texts(ValorAlphabet, MaxText) }
    \cup { NewCall("record",
                   [pdf_text |-> t,
                    entry |-> [deudorNombre |-> dn, tipoProcedimiento |-> tp]]) :
              t \in Texts(NoticeAlphabet, MaxText), dn \in EntryStrings, tp \in EntryStrings }

\* Everything but call.
crawl == << args, csrf_token, csrf_header_name, pc, ep, page_request, start, draw,
            n_entries, i, too_old_counter, records, seen_codigos, written,
            html, last, entry, payload, posts_list, pdf_calls,
            all_old, all_old_unrecorded, first_seen, dup, first_ok >>

InitParser ==
    /\ \E ps \in PageSizes :
       args = [effective_start |-> <<>>, end_date |-> <<>>, limit |-> 0, page_size |-> ps]
    /\ pc = "parser"
    /\ InitRest
    /\ call \in ParserCalls

Return(result) == call' = [call EXCEPT !.result = result, !.done = TRUE]

\* parser.py 33-38
CallToAscii ==
    /\ call.fn = "_to_ascii" /\ ~call.done
    /\ Return(ToAscii(call.arg))
    /\ UNCHANGED crawl

\* parser.py 54-62
CallParseDatetime ==
    /\ call.fn = "_parse_datetime" /\ ~call.done
    /\ Return(ParseDatetime(call.arg))
    /\ UNCHANGED crawl

\* parser.py 112-113
CallValorMinimo ==
    /\ call.fn = "valor_minimo" /\ ~call.done
    /\ Return(ValorMinimo(call.arg))
    /\ UNCHANGED crawl

\* main.py 476, 481-502
CallAssembleRecord ==
    /\ call.fn = "record" /\ ~call.done
    /\ LET detail == ParseRemateDetail(call.arg.pdf_text) IN
       Return([detail |-> detail, record |-> AssembleRecord(detail, call.arg.entry)])
    /\ UNCHANGED crawl

ParserNext ==
    \/ CallToAscii
    \/ CallParseDatetime
    \/ CallValorMinimo
    \/ CallAssembleRecord

ParserSpec == InitParser /\ [][ParserNext]_vars

\* ================================================================== claims
RecordsOf(c) == {k \in 1..Len(records) : records[k].codigo_validacion = c}

CsrfPopulated == csrf_token # <<>> /\ csrf_header_name # <<>>

EntryEvents ==
    {"skip_codigo", "skip_fecha", "too_old", "too_new", "pdf_fail",
     "pdf_not_initialised", "record"}

C2_NthRequest ==
    \A e \in 1..Len(ENDPOINTS) :
        (payload.ep = e /\ posts_list[e] >= 1) =>
            /\ payload.length = args.page_size
            /\ payload.start = (posts_list[e] - 1) * args.page_size
            /\ payload.draw = DefaultDraw + (posts_list[e] - 1)

\* C2 witness: the third request to inmuebles, after records were collected.
C2_Witness ==
    /\ payload.ep = 2
    /\ posts_list[2] = 3
    /\ payload.start = 2 * args.page_size
    /\ Len(records) >= 1

\* C3 (ClientSpec): a step in which the iterator receives an empty page ends the
\* iterator without raising and without yielding, and a listing POST is only ever
\* issued by a live iterator, so the ended one posts nothing more.
C3_EmptyPageEnds ==
    [][ /\ (last' = "list_empty" => pc' = "idle")
        /\ (posts_list' # posts_list => pc = "fetch") ]_vars

\* C3 witness: an iterator ended by an empty page that followed a yielded page.
C3_Witness ==
    /\ last = "list_empty"
    /\ pc = "idle"
    /\ posts_list[ep] >= 2
    /\ payload.start > 0

\* C4 (as stated; Spec): at the end of a page on which every entry had a
\* publication date before effective_start, main() does not go on to request the
\* following page of that endpoint.
C4_Original == [][ (pc = "page_end" /\ all_old) => pc' # "fetch" ]_vars

\* C5 (ClientSpec): a POST has been sent only if both token fields are populated,
\* and a call of iter_pages' step or download_pdf made while a field is unset
\* raises the not-initialised error and posts nothing.
C5_NoPostBeforeBootstrap ==
    /\ []( ((\E e \in 1..Len(ENDPOINTS) : posts_list[e] > 0) \/ pdf_calls # {})
             => CsrfPopulated )
    /\ [][ (~CsrfPopulated
             /\ last' \in {"list_http", "list_empty", "list_page", "list_not_initialised",
                           "pdf_ok", "pdf_fail", "pdf_not_initialised"})
           => /\ last' \in {"list_not_initialised", "pdf_not_initialised"}
              /\ UNCHANGED << posts_list, pdf_calls, payload >> ]_vars

\* C5 witness: iter_pages was stepped on a client whose bootstrap had failed.
C5_Witness ==
    /\ last = "list_not_initialised"
    /\ pc = "raised"
    /\ ~CsrfPopulated
    /\ html.ok
    /\ \A e \in 1..Len(ENDPOINTS) : posts_list[e] = 0

\* C6 (ClientSpec): the two token fields are both set or both unset; a bootstrap
\* whose landing page lacks the token or the header name raises; and a bootstrap
\* that raises leaves both fields as they were.
C6_BootstrapAllOrNothing ==
    /\ []((csrf_token = <<>>) <=> (csrf_header_name = <<>>))
    /\ [][ (last' \in {"boot_ok", "boot_http", "boot_nomatch"}) =>
              /\ (html'.ok /\ (html'.token = <<>> \/ html'.header = <<>>))
                    => last' = "boot_nomatch"
              /\ last' # "boot_ok" => UNCHANGED << csrf_token, csrf_header_name >>
              /\ last' = "boot_ok" => /\ csrf_token' = html'.token
                                     /\ csrf_header_name' = html'.header ]_vars

\* C6 witness: a bootstrap found the token but not the header name, on a client
\* that an earlier bootstrap had initialised.
C6_Witness ==
    /\ last = "boot_nomatch"
    /\ html.token # <<>>
    /\ html.header = <<>>
    /\ CsrfPopulated

\* C7 (Spec): a step in which the download or the parse of an entry's PDF fails
\* adds no record, keeps the records and the seen set, and leaves main() in the
\* loop at the next entry of the same page and endpoint.
C7_PdfFailureContinues ==
    [][ last' = "pdf_fail" =>
           /\ UNCHANGED << records, seen_codigos, ep, start, draw, n_entries, written >>
           /\ i' = i + 1
           /\ pc' = (IF i = n_entries THEN "page_end" ELSE "loop") ]_vars

\* C7 witness: a record was collected after the PDF of another code had failed.
C7_Witness ==
    /\ last = "record"
    /\ pdf_calls \ seen_codigos # {}
    /\ Len(records) >= 1

\* C8 (Spec): after a non-success status on the landing page or on a listing
\* page, main() has ended with the error and nothing is written; once it has
\* ended so, no request is issued and write_dataset is not called.
C8_HttpErrorFatal ==
    /\ [](last \in {"boot_http", "list_http"} => (pc = "error" /\ ~written))
    /\ [][ pc = "error" => UNCHANGED << posts_list, pdf_calls, payload, written >> ]_vars

\* C8 witness: a listing fetch failed after records had been collected.
C8_Witness ==
    /\ last = "list_http"
    /\ pc = "error"
    /\ Len(records) >= 1
    /\ ~written

\* C9 (as stated; Spec): download_pdf is never called for a validation code it
\* was already called for.
C9_Original ==
    [][ last' \in {"record", "pdf_fail"} => entry'.codigo \notin pdf_calls ]_vars

InWindow(d) ==
    /\ args.effective_start # <<>> => args.effective_start[1] <= d
    /\ args.end_date # <<>> => d <= args.end_date[1]

ListEvents == {"list_http", "list_empty", "list_page", "list_not_initialised"}

\* C11 (Spec): every collected record has its publication date inside the
\* inclusive window, for each bound that is set, and a step that calls
\* download_pdf has read for its entry a date inside the window.
C11_RecordsInWindow ==
    /\ [](\A k \in 1..Len(records) : InWindow(records[k].fecha_publicacion))
    /\ [][ last' \in {"record", "pdf_fail"} =>
              /\ entry'.read
              /\ Len(entry'.raw) = 1
              /\ entry'.raw[1] \in Days
              /\ InWindow(entry'.raw[1]) ]_vars

\* C11 witness: with both bounds set, an entry later than end_date was skipped
\* after a record had been collected.
C11_Witness ==
    /\ last = "too_new"
    /\ args.effective_start # <<>>
    /\ args.end_date # <<>>
    /\ Len(records) >= 1
    /\ pdf_calls # {}

\* C12 (ParserSpec): in an assembled record, deudor_nombre and
\* tipo_procedimiento carry the value the parser recovered from the PDF whenever
\* it recovered one, and the value of the listing entry exactly when it
\* recovered none.
C12_PdfValueWins ==
    (call.fn = "record" /\ call.done) =>
        LET d == call.result.detail
            r == call.result.record
            e == call.arg.entry
        IN  /\ d.deudor # <<>> => r.deudor_nombre = d.deudor
            /\ d.deudor = <<>> => r.deudor_nombre = e.deudorNombre
            /\ d.tipo_procedimiento # <<>> => r.tipo_procedimiento = d.tipo_procedimiento
            /\ d.tipo_procedimiento = <<>> => r.tipo_procedimiento = e.tipoProcedimiento

\* C12 witness: the PDF and the listing entry both name a debtor, differently,
\* and only the listing entry has a procedure type.
C12_Witness ==
    /\ call.fn = "record"
    /\ call.done
    /\ call.result.detail.deudor = << << "x" >> >>
    /\ call.arg.entry.deudorNombre = << << "y" >> >>
    /\ call.result.record.deudor_nombre = << << "x" >> >>
    /\ call.result.detail.tipo_procedimiento = <<>>
    /\ call.result.record.tipo_procedimiento = << << "y" >> >>

\* C13 (ClientSpec): a call of iter_pages starts its iterator at the start and
\* draw of the PageRequest it is given; a resumed iterator advances its own
\* offset by the page length and its own draw by one; no step of an iterator
\* changes the PageRequest, so a further call on the same PageRequest starts at
\* the same start and draw and its first POST carries them.
C13_IterPagesRestartable ==
    /\ [][ last' \in {"iter_pages", "iter_pages_again"} =>
              /\ start' = page_request'.start
              /\ draw' = page_request'.draw
              /\ pc' = "fetch" ]_vars
    /\ [][ last' # "iter_pages" => page_request' = page_request ]_vars
    /\ [][ last' = "resume" =>
              /\ start' = start + page_request.length
              /\ draw' = draw + 1 ]_vars
    /\ [][ (last \in {"iter_pages", "iter_pages_again"} /\ posts_list' # posts_list) =>
              /\ payload'.start = page_request.start
              /\ payload'.draw = page_request.draw ]_vars

\* C13 witness: iter_pages was called again on a PageRequest whose earlier
\* iterator had posted beyond the first page.
C13_Witness ==
    /\ last = "iter_pages_again"
    /\ payload.ep = page_request.endpoint
    /\ payload.start > page_request.start
    /\ payload.draw > page_request.draw
    /\ start = page_request.start
    /\ draw = page_request.draw

\* U+0020 to U+007E, as far as the texts have them.
PrintableAscii == {"a", "e", " ", "x", "0", "1", "."}

\* C14 (as stated; ParserSpec): the text _to_ascii returns has no character
\* outside the printable ASCII range except the newline, and no two consecutive
\* blank lines.
C14_Original ==
    (call.fn = "_to_ascii" /\ call.done) =>
        /\ \A j \in 1..Len(call.result) : call.result[j] \in PrintableAscii \cup {LF}
        /\ \A j \in 1..Len(call.result) - 2 :
              ~(call.result[j] = LF /\ call.result[j + 1] = LF /\ call.result[j + 2] = LF)

\* The date-time a well-formed value denotes: day, month and year joined by one
\* of the two separators, alone or followed by a blank and hour:minute.
IsDmy(v, sep) ==
    /\ Len(v) >= 5
    /\ v[1].k = "num" /\ v[3].k = "num" /\ v[5].k = "num"
    /\ v[2] = Lit(sep) /\ v[4] = Lit(sep)
    /\ v[5].n \in 1..9999
    /\ v[3].n \in 1..12
    /\ v[1].n >= 1 /\ v[1].n <= DaysInMonth(v[3].n, v[5].n)

HasTime(v) ==
    /\ Len(v) = 9
    /\ v[6] = Lit(" ") /\ v[8] = Lit(":")
    /\ v[7].k = "num" /\ v[7].n \in 0..23
    /\ v[9].k = "num" /\ v[9].n \in 0..59

\* C15 (as stated; ParserSpec): a day-month-year date written with a slash or
\* with a dash, with or without a time of day, is parsed to the date-time it
\* denotes (midnight when it has no time), and any other value gives None.
C15_Original ==
    (call.fn = "_parse_datetime" /\ call.done) =>
        IF call.arg # <<>>
           /\ (IsDmy(call.arg[1], "/") \/ IsDmy(call.arg[1], "-"))
           /\ (Len(call.arg[1]) = 5 \/ HasTime(call.arg[1]))
        THEN LET v == call.arg[1] IN
             call.result =
                << [day |-> v[1].n, month |-> v[3].n, year |-> v[5].n,
                    hour |-> IF HasTime(v) THEN v[7].n ELSE 0,
                    minute |-> IF HasTime(v) THEN v[9].n ELSE 0] >>
        ELSE call.result = <<>>

\* What follows the first label on its own line, as far as digits, dots and
\* blanks go.
ValorOnLine(text) ==
    LET ps == {p \in 1..Len(text) : text[p] = ValorLabel} IN
    IF ps = {} THEN <<>>
    ELSE LET p == CHOOSE x \in ps : \A y \in ps : x <= y IN
         SubSeq(text, p + 1, p + RunLen(text, p + 1, Digits \cup {".", " "}))

\* C16 (as stated; ParserSpec): the minimum value is the integer formed by the
\* digits that follow the label on its line, and None when the label is absent
\* or no digit follows it there.
C16_Original ==
    (call.fn = "valor_minimo" /\ call.done) =>
        LET digits == SelectSeq(ValorOnLine(call.arg), IsDigit) IN
        call.result = IF digits = <<>> THEN <<>> ELSE << ToInt(digits) >>

\* C17 (Spec): with a positive limit the records never outnumber it, and from a
\* state in which it is reached no step issues a listing POST, calls
\* download_pdf or adds a record.
C17_LimitBounds ==
    /\ [](args.limit > 0 => Len(records) <= args.limit)
    /\ [][ (args.limit > 0 /\ Len(records) >= args.limit) =>
              /\ UNCHANGED << posts_list, pdf_calls, payload, seen_codigos >>
              /\ Len(records') = Len(records)
              /\ last' \notin ListEvents \cup {"record", "pdf_fail"} ]_vars

\* C17 witness: the limit was reached on muebles in the middle of a page, and
\* main() finished without a request to inmuebles.
C17_Witness ==
    /\ pc = "done"
    /\ args.limit > 0
    /\ Len(records) = args.limit
    /\ posts_list[2] = 0
    /\ i < n_entries

\* C18 (Spec): the early stop leaves main() at the end of the current endpoint
\* only; when that endpoint is muebles, the next step starts the crawl of
\* inmuebles with a fresh iterator at start 0 and draw 1, and the first POST to
\* inmuebles carries these values.
C18_EarlyStopEndsEndpointOnly ==
    /\ [](last = "early_stop" => pc = "next_endpoint")
    /\ [][ (last = "early_stop" /\ ep = 1) =>
              /\ pc' = "fetch"
              /\ ep' = 2
              /\ page_request'.endpoint = 2
              /\ start' = DefaultStart
              /\ draw' = DefaultDraw
              /\ ~written' ]_vars
    /\ [][ (posts_list[2] = 0 /\ posts_list'[2] = 1) =>
              payload' = [ep |-> 2, start |-> DefaultStart, draw |-> DefaultDraw,
                          length |-> args.page_size] ]_vars

\* C18 witness: muebles was stopped early on its second page, all of whose
\* entries were too old, and main() is about to post the first request to
\* inmuebles.
C18_Witness ==
    /\ last = "endpoint_end"
    /\ pc = "fetch"
    /\ ep = 2
    /\ posts_list = << 2, 0 >>
    /\ args.effective_start # <<>>
    /\ n_entries = 2
    /\ too_old_counter = n_entries
    /\ ~LimitReached(args.limit, records)
    /\ start = DefaultStart
    /\ draw = DefaultDraw

\* C19 (Spec): a step issues at most one request; the request for a further
\* page of an endpoint is issued only when every entry of the page before it has
\* been handled; a request goes to the current endpoint only, and inmuebles
\* becomes current only when the crawl of muebles has ended, after which no
\* request goes to muebles.
C19_Sequential ==
    /\ [][ posts_list' # posts_list =>
              /\ UNCHANGED << pdf_calls, records >>
              /\ posts_list' = [posts_list EXCEPT ![ep] = @ + 1]
              /\ payload'.ep = ep
              /\ posts_list[ep] >= 1 => (i = n_entries + 1 /\ last = "next_page") ]_vars
    /\ [][ ep' # ep => (ep = 1 /\ ep' = 2 /\ pc = "next_endpoint"
                        /\ last' = "endpoint_end") ]_vars
    /\ [](posts_list[2] > 0 => ep = 2)
    /\ [][ last' \in EntryEvents => UNCHANGED << posts_list, payload, ep >> ]_vars

\* C19 witness: the second page of inmuebles was requested after two pages of
\* muebles, with PDFs downloaded on the way.
C19_Witness ==
    /\ last = "list_page"
    /\ payload.ep = 2
    /\ posts_list[1] >= 2
    /\ posts_list[2] >= 2
    /\ pdf_calls # {}
    /\ Len(records) >= 1

\* C20 (Spec): main() takes the early stop only with a lower bound configured
\* and at the end of a page all of whose entries were handled and had, each
\* when it was handled, a validation code in no record and a parseable
\* publication date earlier than effective_start.
C20_EarlyStopOnlyAllOld ==
    /\ [][ last' = "early_stop" =>
              /\ args.effective_start # <<>>
              /\ all_old_unrecorded
              /\ n_entries > 0
              /\ i = n_entries + 1 ]_vars
    /\ [](args.effective_start = <<>> => last # "early_stop")

\* C20 witness: inmuebles was stopped early on a page of two entries, after a
\* record had been collected.
C20_Witness ==
    /\ last = "early_stop"
    /\ ep = 2
    /\ n_entries >= 2
    /\ Len(records) >= 1

\* C21 (Spec): in every state the seen set is exactly the set of the validation
\* codes of the records collected, and a step that skips an entry or fails on
\* its download leaves the seen set as it was.
C21_SeenIsRecordCodes ==
    /\ [](seen_codigos = {records[k].codigo_validacion : k \in 1..Len(records)})
    /\ [][ last' \in EntryEvents \ {"record"} => seen_codigos' = seen_codigos ]_vars

\* C21 witness: with a record collected, the download for another code failed
\* and that code is not in the seen set.
C21_Witness ==
    /\ last = "pdf_fail"
    /\ Len(records) >= 1
    /\ seen_codigos # {}
    /\ entry.codigo \in pdf_calls \ seen_codigos

\* C22 (FairSpec): main() eventually ends, either having called write_dataset or
\* with a fatal error of the bootstrap or of a listing fetch; it ends with an
\* error for no other reason; and the crawl of an endpoint ends only on an empty
\* page, on the early stop, on the record limit or (with main() itself) on a
\* failed listing fetch.
C22_Terminates ==
    /\ <>(pc \in {"done", "error"})
    /\ [](pc = "done" => written)
    /\ [](pc = "error" => last \in {"boot_http", "boot_nomatch", "list_http"})
    /\ [][ (pc' = "next_endpoint" /\ pc # "next_endpoint") =>
              last' \in {"list_empty", "early_stop", "limit_stop"} ]_vars
    /\ [][ (pc' = "error" /\ pc \notin {"bootstrap", "error"}) =>
              (pc = "fetch" /\ last' = "list_http") ]_vars
    /\ [][ ep' # ep => pc = "next_endpoint" ]_vars
    /\ [][ pc' = "finish" => pc = "next_endpoint" ]_vars

\* C22 witness: main() wrote the dataset after both endpoints had served all
\* their pages and then an empty one.
C22_Witness ==
    /\ pc = "done"
    /\ written
    /\ posts_list = << MaxPages + 1, MaxPages + 1 >>
    /\ Len(records) >= 1

====
